---- MODULE Spec2Model ----
(***************************************************************************)
(* Model of vse/find_strips_name_type.py: the strip finder of the Blender  *)
(* video sequence editor.  run_strip_finder builds one ignore regex per    *)
(* requested strip type, scans the timeline, and prints the result.        *)
(*                                                                         *)
(* Strings are sequences of one-character strings.  A regular expression   *)
(* is a sequence of tokens: <<"star">> for ".*", <<"lit", c>> for the      *)
(* escaped character c, <<"alt">> for "|".                                 *)
(***************************************************************************)
EXTENDS Naturals, Integers, Sequences, FiniteSets, Bags, TLC

VARIABLES
    sequencer,          \* bpy.context.scene.sequence_editor: TRUE when the scene has one
    timeline,           \* sequencer.sequences_all: the strips of the timeline
    sequence_types,     \* the caller's list of requested strip types
    ignored_names,      \* the caller's dictionary type -> ignore list (mutated by the run)
    ignore_duplication, \* the caller's ignore_duplication flag
    literal_types,      \* TRUE when the caller's type strings are the interned literals
    pc,                 \* position inside run_strip_finder
    i,                  \* index of the loop of lines 103-107
    sequences,          \* the value returned by find_sequence_names
    out,                \* bag of the lines printed by the current run
    raised,             \* exception that ended the current run, or "none"
    stages,             \* history: the stages the current run went through
    supplied,           \* history: ignored_names as it was when the run was called
    first,              \* history: how the first run ended
    last_build          \* history: the last call of build_ignored_names_re

vars == <<sequencer, timeline, sequence_types, ignored_names, ignore_duplication,
          literal_types, pc, i, sequences, out, raised, stages, supplied, first,
          last_build>>

----------------------------------------------------------------------------
(* Bounds and input sets *)

MaxStrips == 2

NL == "\n"

StripTypes == {"SOUND", "IMAGE", "MOVIE", "COLOR"}

Names == {<<"a">>, <<"b">>, <<NL, "a">>}

Files == {<<>>, <<"f">>, <<"g">>}

ImageDirectory == <<"d">>

Range(f) == {f[x] : x \in DOMAIN f}

\* A strip: its type, its name, and where its media comes from
\* (sound.filepath / filepath for SOUND and MOVIE, directory and
\* elements[0].filename for IMAGE, nothing for an effect strip).
Strips ==
    {s \in [type : StripTypes, name : Names, directory : {<<>>, ImageDirectory},
            file : Files] :
        /\ s.type = "IMAGE" <=> s.directory = ImageDirectory
        /\ s.type = "COLOR" => s.file = <<>>}

\* The host keeps strip names unique.
UniqueNames(S) == \A s, t \in S : s.name = t.name => s = t

RECURSIVE TimelinesUpTo(_)
TimelinesUpTo(n) ==
    IF n = 0 THEN {{}}
    ELSE LET smaller == TimelinesUpTo(n - 1)
         IN  smaller \cup {T \cup {s} : T \in smaller, s \in Strips}

Timelines == {T \in TimelinesUpTo(MaxStrips) : UniqueNames(T)}

\* Values an entry of ignored_names can hold.
Absent == [kind |-> "absent", val |-> <<>>]
None == [kind |-> "none", val |-> <<>>]
List(l) == [kind |-> "list", val |-> l]
Re(p) == [kind |-> "re", val |-> p]

Dict(sound, image, movie, color) ==
    [t \in StripTypes |->
        CASE t = "SOUND" -> sound
          [] t = "IMAGE" -> image
          [] t = "MOVIE" -> movie
          [] OTHER -> color]

\* Lists of requested types: none, one, the script's own call (line 114),
\* the default (line 97), a repeated type, a type without media file.
SequenceTypesInputs ==
    { <<>>,
      <<"SOUND">>,
      <<"SOUND", "IMAGE">>,
      <<"IMAGE", "MOVIE", "SOUND">>,
      <<"SOUND", "SOUND">>,
      <<"MOVIE", "COLOR">> }

\* Dictionaries of ignore lists: the default {}, the shape of the script's
\* own call (line 114), and others with several strings, the empty string,
\* a newline and a repeated string.
IgnoredNamesInputs ==
    { Dict(Absent, Absent, Absent, Absent),
      Dict(List(<< <<"a">> >>), List(<<>>), List(<<>>), Absent),
      Dict(List(<< <<"a">>, <<"b">> >>), List(<< <<"b">> >>), Absent, Absent),
      Dict(List(<< <<>> >>), Absent, List(<< <<"a">> >>), List(<< <<"b">> >>)),
      Dict(List(<<>>), List(<< <<NL>>, <<"a">> >>), List(<< <<"b">> >>),
           List(<< <<"a">>, <<"b">>, <<"a">> >>)) }

----------------------------------------------------------------------------
(* Regular expressions: re.escape, re.compile(...).pattern, "|".join, re.match *)

Star == <<"star">>
Alt == <<"alt">>
Lit(c) == <<"lit", c>>

\* re.escape(s): every character of s stands for itself in the pattern.
Escape(s) == [k \in 1..Len(s) |-> Lit(s[k])]

\* re.compile(".*%s.*" % re.escape(s)).pattern
CompilePattern(s) == <<Star>> \o Escape(s) \o <<Star>>

\* "|".join(patterns), for a non-empty list of patterns
RECURSIVE JoinPatterns(_)
JoinPatterns(ps) ==
    IF Len(ps) = 1 THEN ps[1]
    ELSE ps[1] \o <<Alt>> \o JoinPatterns(Tail(ps))

\* The alternatives of a pattern: the pieces between its "|" tokens.
RECURSIVE Alternatives(_)
Alternatives(p) ==
    IF \A k \in 1..Len(p) : p[k] # Alt THEN <<p>>
    ELSE LET k == CHOOSE j \in 1..Len(p) :
                      p[j] = Alt /\ \A h \in 1..(j - 1) : p[h] # Alt
         IN  <<SubSeq(p, 1, k - 1)>> \o Alternatives(SubSeq(p, k + 1, Len(p)))

\* Does the token sequence toks match a prefix of the string str?
\* "." matches any character but the newline (no DOTALL flag is given).
RECURSIVE MatchHere(_, _)
MatchHere(toks, str) ==
    IF toks = <<>> THEN TRUE
    ELSE IF Head(toks) = Star
         THEN \E k \in 0..Len(str) :
                  /\ \A h \in 1..k : str[h] # NL
                  /\ MatchHere(Tail(toks), SubSeq(str, k + 1, Len(str)))
         ELSE /\ str # <<>>
              /\ Head(toks) = Lit(Head(str))
              /\ MatchHere(Tail(toks), Tail(str))

\* re.match(pattern, string) is a match object (truthy) or None:
\* the pattern is anchored at the start of the string only.
ReMatch(pattern, str) ==
    \E a \in 1..Len(Alternatives(pattern)) : MatchHere(Alternatives(pattern)[a], str)

----------------------------------------------------------------------------
(* build_ignored_names_re *)

\* Faulty variant: the strings are popped from the front of the list (pop(0)).
RECURSIVE build_popping_front(_, _)
build_popping_front(namestrings, ignored_res_list) ==
    IF namestrings.kind = "none" \/ Len(namestrings.val) < 1
    THEN [ret |-> IF ignored_res_list = <<>> THEN <<>>
                  ELSE JoinPatterns(ignored_res_list),
          namestrings |-> namestrings.val,
          calls |-> 0,
          raised |-> FALSE]
    ELSE IF namestrings.kind # "list"
    THEN [ret |-> <<>>, namestrings |-> namestrings.val, calls |-> 0, raised |-> TRUE]
    ELSE LET ignored_namestring == Head(namestrings.val)
             popped == List(Tail(namestrings.val))
             r == build_popping_front(
                      popped, Append(ignored_res_list, CompilePattern(ignored_namestring)))
         IN  [r EXCEPT !.calls = @ + 1]

\* The outcome of a call: the returned pattern, the list object as the call
\* leaves it, the number of recursive calls made, and whether it raised.
RECURSIVE build_ignored_names_re(_, _)
build_ignored_names_re(namestrings, ignored_res_list) ==
    IF namestrings.kind = "none" \/ Len(namestrings.val) < 1
    THEN [ret |-> IF ignored_res_list = <<>> THEN <<>>
                  ELSE JoinPatterns(ignored_res_list),
          namestrings |-> namestrings.val,
          calls |-> 0,
          raised |-> FALSE]
    ELSE IF namestrings.kind # "list"
    THEN \* a str has no pop(): AttributeError
         [ret |-> <<>>, namestrings |-> namestrings.val, calls |-> 0, raised |-> TRUE]
    ELSE LET n == Len(namestrings.val)
             ignored_namestring == namestrings.val[n]
             popped == List(SubSeq(namestrings.val, 1, n - 1))
             r == build_ignored_names_re(
                      popped, Append(ignored_res_list, CompilePattern(ignored_namestring)))
         IN  [r EXCEPT !.calls = @ + 1]

----------------------------------------------------------------------------
(* find_sequence_names *)

\* Python truthiness of a dictionary entry: None and "" are false.
Falsy(v) == v.kind = "none" \/ v.val = <<>>

\* A printed line: what it is, the type section it belongs to, its text.
Line(kind, sec, text) == [kind |-> kind, sec |-> sec, text |-> text]

NoResult == [kind |-> "unset", keys |-> <<>>, val |-> <<>>]
NoneResult == [kind |-> "none", keys |-> <<>>, val |-> <<>>]

\* The keys of a dictionary filled from the list ts, in insertion order.
RECURSIVE KeysOf(_)
KeysOf(ts) ==
    IF ts = <<>> THEN <<>>
    ELSE LET rest == KeysOf(SubSeq(ts, 1, Len(ts) - 1))
             t == ts[Len(ts)]
         IN  IF t \in Range(rest) THEN rest ELSE Append(rest, t)

\* Faulty variant: the test "not ignored_res_dict[sequence.type]" is left out, so an
\* empty pattern is handed to re.match, which matches every name.
PassesWithoutEmptyTest(sequence, types, ignored_res_dict) ==
    /\ sequence.type \in Range(types)
    /\ \/ ignored_res_dict[sequence.type].kind = "absent"
       \/ ~ReMatch(ignored_res_dict[sequence.type].val, sequence.name)

\* Lines 53-58: the condition under which a strip is added to found_sequences.
Passes(sequence, types, ignored_res_dict) ==
    /\ sequence.type \in Range(types)
    /\ \/ ignored_res_dict[sequence.type].kind = "absent"
       \/ Falsy(ignored_res_dict[sequence.type])
       \/ ~ReMatch(ignored_res_dict[sequence.type].val, sequence.name)

\* Faulty variant: a strip that passes is added under the loop variable left over
\* from line 51 (the last requested type), not under its own type.
find_adding_under_last_type(has_sequencer, sequences_all, types, ignored_res_dict) ==
    IF ~has_sequencer
    THEN [ret |-> NoneResult,
          out |-> SetToBag({Line("error", "", <<"SEQUENCE_EDITOR not found">>)})]
    ELSE [ret |-> [kind |-> "dict",
                   keys |-> KeysOf(types),
                   val |-> [t \in Range(types) |->
                              {sequence \in sequences_all :
                                  /\ t = types[Len(types)]
                                  /\ Passes(sequence, types, ignored_res_dict)}]],
          out |-> EmptyBag]

\* The returned value and the lines printed on the way.
find_sequence_names(has_sequencer, sequences_all, types, ignored_res_dict) ==
    IF ~has_sequencer
    THEN [ret |-> NoneResult,
          out |-> SetToBag({Line("error", "", <<"SEQUENCE_EDITOR not found">>)})]
    ELSE [ret |-> [kind |-> "dict",
                   keys |-> KeysOf(types),
                   val |-> [t \in Range(types) |->
                              {sequence \in sequences_all :
                                  /\ sequence.type = t
                                  /\ Passes(sequence, types, ignored_res_dict)}]],
          out |-> EmptyBag]

----------------------------------------------------------------------------
(* print_sequence_names, as run_strip_finder calls it (full_paths=True) *)

\* "x is 'SOUND'": identity of string objects.  Equal strings are the same
\* object only when both are interned, which holds for the literals of a
\* caller's source text and not for strings built at run time.
Is(x, literal, interned) == interned /\ x = literal

\* Lines 71-84: the files one section collects in found_files.
FoundFiles(sequence_type, found, interned) ==
    IF Is(sequence_type, "SOUND", interned)
    THEN {sequence.file : sequence \in {q \in found : q.file # <<>>}}
    ELSE IF Is(sequence_type, "IMAGE", interned)
    THEN {sequence.directory \o sequence.file : sequence \in found}
    ELSE IF Is(sequence_type, "MOVIE", interned)
    THEN {sequence.file : sequence \in {q \in found : q.file # <<>>}}
    ELSE {}

\* Lines 68-89: the lines of one section when duplicates are ignored.
SectionLines(sequence_type, found, interned) ==
    LET found_files == FoundFiles(sequence_type, found, interned)
    IN  {Line("section", sequence_type, <<>>)}
        \cup (IF Cardinality(found_files) < 1
              THEN {Line("empty", sequence_type, <<>>)}
              ELSE {Line("path", sequence_type, name) : name \in found_files})

\* Faulty variant: duplicates are suppressed in this branch too, one strip is listed
\* per source file.
NameLinesOnePerFile(found) ==
    {Line("name", sequence.type, sequence.name) :
        sequence \in {q \in found :
                         q = CHOOSE r \in found :
                                 r.directory \o r.file = q.directory \o q.file}}

\* Lines 92-94: one line per strip when duplicates are included.
NameLines(found) ==
    {Line("name", sequence.type, sequence.name) : sequence \in found}

print_sequence_names(sequences_by_type, duplication_ignored, interned) ==
    IF sequences_by_type.kind # "dict"
    THEN \* None has no keys(): AttributeError before anything is printed
         [raised |-> TRUE, out |-> EmptyBag]
    ELSE LET ignore_mssg == IF duplication_ignored THEN "ignored" ELSE "included"
             header == Line("header", "", <<ignore_mssg>> \o sequences_by_type.keys)
             types == Range(sequences_by_type.keys)
             body == IF duplication_ignored
                     THEN UNION {SectionLines(t, sequences_by_type.val[t], interned) :
                                    t \in types}
                     ELSE UNION {NameLines(sequences_by_type.val[t]) : t \in types}
         IN  [raised |-> FALSE, out |-> SetToBag({header} \cup body)]

----------------------------------------------------------------------------
(* run_strip_finder *)

NoBuild == [valid |-> FALSE, input |-> None, ret |-> <<>>, namestrings |-> <<>>,
            calls |-> 0, raised |-> FALSE]

NoFirst == [done |-> FALSE, out |-> EmptyBag, raised |-> "none"]

\* The scene (fixed while the script runs: the default argument of line 45 is
\* evaluated once) and the argument objects of the caller.  The identity of
\* the type strings is read by the ignore_duplication branch only.
Init ==
    /\ sequencer \in BOOLEAN
    /\ timeline \in (IF sequencer THEN Timelines ELSE {{}})
    /\ sequence_types \in SequenceTypesInputs
    /\ ignored_names \in IgnoredNamesInputs
    /\ ignore_duplication \in BOOLEAN
    /\ literal_types \in (IF ignore_duplication THEN BOOLEAN ELSE {TRUE})
    /\ pc = "idle"
    /\ i = 1
    /\ sequences = NoResult
    /\ out = EmptyBag
    /\ raised = "none"
    /\ stages = <<>>
    /\ supplied = ignored_names
    /\ first = NoFirst
    /\ last_build = NoBuild

\* Faulty variant: the test for an empty list of types is missing; the loop over the
\* types does nothing and the run goes on to the scan.
CallWithoutEarlyReturn ==
    /\ pc = "idle"
    /\ supplied' = ignored_names
    /\ sequences' = NoResult
    /\ raised' = "none"
    /\ stages' = <<>>
    /\ last_build' = NoBuild
    /\ i' = 1
    /\ out' = EmptyBag
    /\ pc' = IF sequence_types = <<>> THEN "find" ELSE "build"
    /\ UNCHANGED <<sequencer, timeline, sequence_types, ignored_names,
                   ignore_duplication, literal_types, first>>

\* Lines 97-102: the call, and the early return on an empty list of types.
Call ==
    /\ pc = "idle"
    /\ supplied' = ignored_names
    /\ sequences' = NoResult
    /\ raised' = "none"
    /\ stages' = <<>>
    /\ last_build' = NoBuild
    /\ i' = 1
    /\ IF sequence_types = <<>>
       THEN /\ out' = SetToBag({Line("message", "", <<"no sequence types provided">>)})
            /\ pc' = "done"
       ELSE /\ out' = EmptyBag
            /\ pc' = "build"
    /\ UNCHANGED <<sequencer, timeline, sequence_types, ignored_names,
                   ignore_duplication, literal_types, first>>

\* Lines 103-107: one iteration of the loop over the requested types.
BuildRegex ==
    /\ pc = "build"
    /\ LET sequence_type == sequence_types[i]
           r == build_ignored_names_re(ignored_names[sequence_type], <<>>)
       IN  IF ignored_names[sequence_type].kind # "absent"
           THEN /\ last_build' = [valid |-> TRUE,
                                  input |-> ignored_names[sequence_type],
                                  ret |-> r.ret,
                                  namestrings |-> r.namestrings,
                                  calls |-> r.calls,
                                  raised |-> r.raised]
                /\ IF r.raised
                   THEN /\ raised' = "AttributeError"
                        /\ pc' = "done"
                        /\ UNCHANGED <<ignored_names, stages, i>>
                   ELSE /\ ignored_names' =
                               [ignored_names EXCEPT ![sequence_type] = Re(r.ret)]
                        /\ stages' = Append(stages, "regex")
                        /\ i' = i + 1
                        /\ pc' = IF i = Len(sequence_types) THEN "find" ELSE "build"
                        /\ UNCHANGED raised
           ELSE /\ ignored_names' = [ignored_names EXCEPT ![sequence_type] = None]
                /\ stages' = Append(stages, "regex")
                /\ i' = i + 1
                /\ pc' = IF i = Len(sequence_types) THEN "find" ELSE "build"
                /\ UNCHANGED <<raised, last_build>>
    /\ UNCHANGED <<sequencer, timeline, sequence_types, ignore_duplication,
                   literal_types, sequences, out, supplied, first>>

\* Line 109: the scan of the timeline.
FindSequences ==
    /\ pc = "find"
    /\ LET r == find_sequence_names(sequencer, timeline, sequence_types, ignored_names)
       IN  /\ sequences' = r.ret
           /\ out' = out (+) r.out
           /\ stages' = IF r.ret.kind = "dict" THEN Append(stages, "scan") ELSE stages
    /\ pc' = "print"
    /\ UNCHANGED <<sequencer, timeline, sequence_types, ignored_names,
                   ignore_duplication, literal_types, i, raised, supplied, first,
                   last_build>>

\* Line 112: the display of the result.
PrintSequences ==
    /\ pc = "print"
    /\ LET r == print_sequence_names(sequences, ignore_duplication, literal_types)
       IN  /\ out' = out (+) r.out
           /\ raised' = IF r.raised THEN "AttributeError" ELSE raised
           /\ stages' = IF r.raised THEN stages ELSE Append(stages, "print")
    /\ pc' = "done"
    /\ UNCHANGED <<sequencer, timeline, sequence_types, ignored_names,
                   ignore_duplication, literal_types, i, sequences, supplied, first,
                   last_build>>

\* The run is over (returned or raised); the caller may call again with the
\* same argument objects.
Return ==
    /\ pc = "done"
    /\ pc' = "idle"
    /\ first' = IF first.done THEN first
                ELSE [done |-> TRUE, out |-> out, raised |-> raised]
    /\ UNCHANGED <<sequencer, timeline, sequence_types, ignored_names,
                   ignore_duplication, literal_types, i, sequences, out, raised,
                   stages, supplied, last_build>>

Next ==
    \/ Call
    \/ BuildRegex
    \/ FindSequences
    \/ PrintSequences
    \/ Return

Spec == Init /\ [][Next]_vars

----------------------------------------------------------------------------
(* Vocabulary of the properties *)

\* s occurs in name as a substring.
Contains(name, s) ==
    \E k \in 0..(Len(name) - Len(s)) : SubSeq(name, k + 1, k + Len(s)) = s

Requested == Range(sequence_types)

\* The ignore strings the caller supplied for a type.
IgnoreStrings(t) == IF supplied[t].kind = "list" THEN Range(supplied[t].val) ELSE {}

\* The caller supplied lists (or nothing) for every requested type.
ListsSupplied == \A t \in Requested : supplied[t].kind \in {"list", "absent"}

\* The source file of a strip, as print_sequence_names derives it.
SourcePath(sequence) ==
    IF sequence.type = "IMAGE" THEN sequence.directory \o sequence.file
    ELSE sequence.file

Kept == UNION {sequences.val[t] : t \in DOMAIN sequences.val}

Finished == pc = "done" /\ raised = "none"

Listed == Finished /\ sequences.kind = "dict"

----------------------------------------------------------------------------
(* Properties *)

\* C1: the result of the filter step holds, under each requested type T,
\* exactly the strips of type T whose name contains none of the ignore
\* strings supplied for T as a substring.
C1_FilterKeepsExactlyUnignored ==
    (sequences.kind = "dict" /\ ListsSupplied) =>
        \A t \in Requested :
            sequences.val[t] =
                {sequence \in timeline :
                    /\ sequence.type = t
                    /\ \A str \in IgnoreStrings(t) : ~Contains(sequence.name, str)}

\* C2: with ignore_duplication=True, every source file path of a kept strip
\* is printed in the section of its type, and printed there exactly once.
C2_EveryKeptPathPrintedOnce ==
    (Listed /\ ignore_duplication) =>
        \A t \in Requested \cap {"SOUND", "IMAGE", "MOVIE"} :
            \A sequence \in sequences.val[t] :
                SourcePath(sequence) # <<>> =>
                    CopiesIn(Line("path", t, SourcePath(sequence)), out) = 1

\* C3: with ignore_duplication=False, every kept strip is listed exactly once
\* by its own type and name, and nothing else is listed.
C3_EveryKeptStripListedOnce ==
    (Listed /\ ~ignore_duplication) =>
        /\ \A sequence \in Kept :
               CopiesIn(Line("name", sequence.type, sequence.name), out) = 1
        /\ \A l \in BagToSet(out) :
               l.kind \notin {"header"} =>
                   \E sequence \in Kept : l = Line("name", sequence.type, sequence.name)

C3_Witness ==
    /\ Listed
    /\ ~ignore_duplication
    /\ \E s1, s2 \in Kept :
           /\ s1.name # s2.name
           /\ s1.type = s2.type
           /\ SourcePath(s1) = SourcePath(s2)
           /\ SourcePath(s1) # <<>>

\* C4: every run with a non-empty list of requested types goes through the
\* three stages once each and in order: one regex step per requested type,
\* then the scan, then the printing.
C4_StagesInOrderOnceEach ==
    (pc = "done" /\ sequence_types # <<>>) =>
        stages = [k \in 1..Len(sequence_types) |-> "regex"] \o <<"scan", "print">>

\* C5: a later call with the same argument objects completes and prints what
\* the first call printed.
C5_SecondRunPrintsTheSame ==
    (pc = "done" /\ first.done /\ first.raised = "none") =>
        /\ raised = "none"
        /\ out = first.out

\* C6: without a sequence editor, a run that reaches find_sequence_names
\* prints the error, gets no result, prints no listing and raises nothing.
C6_NoSequencerHandled ==
    (pc = "done" /\ ~sequencer /\ sequences # NoResult) =>
        /\ raised = "none"
        /\ sequences = NoneResult
        /\ \A l \in BagToSet(out) : l.kind = "error"

\* C7: a requested type whose ignore list is empty or missing ends with an
\* empty pattern or None, and every strip of that type is kept.
C7_NothingIgnoredKeepsAll ==
    sequences.kind = "dict" =>
        \A t \in Requested :
            (supplied[t].kind = "absent" \/ supplied[t] = List(<<>>)) =>
                /\ ignored_names[t] \in {None, Re(<<>>)}
                /\ sequences.val[t] = {sequence \in timeline : sequence.type = t}

C7_Witness ==
    /\ sequences.kind = "dict"
    /\ \E t, u \in Requested :
           /\ supplied[t] = List(<<>>)
           /\ supplied[u].kind = "absent"
           /\ \E s1 \in sequences.val[t], s2 \in sequences.val[u] : s1.name # s2.name

C9_FilteringKeyedByType ==
    sequences.kind = "dict" =>
        /\ DOMAIN sequences.val = Requested
        /\ Range(sequences.keys) = Requested
        /\ \A t \in Requested : \A sequence \in sequences.val[t] :
               sequence.type = t /\ sequence \in timeline
        /\ \A sequence \in timeline :
               sequence.type \notin Requested => sequence \notin Kept
        /\ \A sequence \in timeline :
               (sequence.type \in Requested /\ sequence \notin sequences.val[sequence.type])
                   => /\ ignored_names[sequence.type].kind = "re"
                      /\ ReMatch(ignored_names[sequence.type].val, sequence.name)

C9_Witness ==
    /\ sequences.kind = "dict"
    /\ \E t, u \in Requested :
           /\ t # u
           /\ ignored_names[u].kind = "re"
           /\ ignored_names[u].val # <<>>
           /\ \E sequence \in sequences.val[t] :
                  ReMatch(ignored_names[u].val, sequence.name)
    /\ \E sequence \in timeline : sequence.type \notin Requested

\* C10: with an empty list of requested types the call prints the message
\* and returns: no regex is built, ignored_names keeps its lists, nothing is
\* scanned and no listing is printed.
C10_EmptyTypesReturnsAtOnce ==
    sequence_types = <<>> =>
        /\ pc \in {"idle", "done"}
        /\ raised = "none"
        /\ stages = <<>>
        /\ sequences = NoResult
        /\ last_build = NoBuild
        /\ ignored_names = supplied
        /\ ignored_names \in IgnoredNamesInputs
        /\ pc = "done" =>
               out = SetToBag({Line("message", "", <<"no sequence types provided">>)})
        /\ \A l \in BagToSet(out) : l.kind = "message"

C10_Witness ==
    /\ sequence_types = <<>>
    /\ pc = "done"
    /\ first.done
    /\ \E t \in StripTypes : ignored_names[t].kind = "list" /\ ignored_names[t].val # <<>>
    /\ timeline # {}

====
